---- MODULE Spec2Model ----
(***************************************************************************)
(* Model of the monkey-lang tokenizer (interpreter/src/lexical_analyzer.rs) *)
(*                                                                         *)
(* A character is a one-character string; a character outside ASCII is     *)
(* written by its code point ("U+0663").  A Rust String or Vec<char> is a  *)
(* sequence of characters.                                                 *)
(***************************************************************************)
EXTENDS Integers, Sequences, FiniteSets, TLC

VARIABLES input, variant, remaining_input, punctuation_to_token,
          keyword_to_token, tokens, pc, returned

vars == <<input, variant, remaining_input, punctuation_to_token,
          keyword_to_token, tokens, pc, returned>>

----------------------------------------------------------------------------
(* Bounds of the explored inputs *)

MaxPieces == 3

MaxLexemes == 2

MaxFairPieces == 2

----------------------------------------------------------------------------
(* Character classes (Rust's char methods) *)

AsciiLetters ==
    {"a","b","c","d","e","f","g","h","i","j","k","l","m",
     "n","o","p","q","r","s","t","u","v","w","x","y","z",
     "A","B","C","D","E","F","G","H","I","J","K","L","M",
     "N","O","P","Q","R","S","T","U","V","W","X","Y","Z"}

AsciiDigits == {"0","1","2","3","4","5","6","7","8","9"}

\* Characters of the Unicode categories Nd, Nl, No outside ASCII:
\* ARABIC-INDIC DIGIT THREE, SUPERSCRIPT TWO, ROMAN NUMERAL EIGHT.
OtherNumerics == {"U+0663", "U+00B2", "U+2167"}

\* U+0020 SPACE, U+0009 TAB, U+000A LF, U+000C FF, U+000D CR
AsciiWhitespace == {" ", "\t", "\n", "\f", "\r"}

is_ascii_alphabetic(c) == c \in AsciiLetters

is_ascii_alphanumeric(c) == c \in AsciiLetters \cup AsciiDigits

is_numeric(c) == c \in AsciiDigits \cup OtherNumerics

is_ascii_whitespace(c) == c \in AsciiWhitespace

DigitValue(c) ==
    CASE c = "0" -> 0 [] c = "1" -> 1 [] c = "2" -> 2 [] c = "3" -> 3
      [] c = "4" -> 4 [] c = "5" -> 5 [] c = "6" -> 6 [] c = "7" -> 7
      [] c = "8" -> 8 [] c = "9" -> 9

DigitChar(d) ==
    CASE d = 0 -> "0" [] d = 1 -> "1" [] d = 2 -> "2" [] d = 3 -> "3"
      [] d = 4 -> "4" [] d = 5 -> "5" [] d = 6 -> "6" [] d = 7 -> "7"
      [] d = 8 -> "8" [] d = 9 -> "9"

----------------------------------------------------------------------------
(* enum Token *)

Tok(kind) == [kind |-> kind, text |-> <<>>, int |-> 0, bool |-> FALSE]

Identifier(data) == [Tok("Identifier") EXCEPT !.text = data]

Integer(data) == [Tok("Integer") EXCEPT !.int = data]

Boolean(data) == [Tok("Boolean") EXCEPT !.bool = data]

Let == Tok("Let")

Fn == Tok("Fn")

If == Tok("If")

Else == Tok("Else")

Plus == Tok("Plus")

Minus == Tok("Minus")

Star == Tok("Star")

Slash == Tok("Slash")

Assignment == Tok("Assignment")

Equals == Tok("Equals")

Semicolon == Tok("Semicolon")

LeftParen == Tok("LeftParen")

RightParen == Tok("RightParen")

LeftBrace == Tok("LeftBrace")

RightBrace == Tok("RightBrace")

----------------------------------------------------------------------------
(* Tokenizer::new: the two lookup tables *)

PunctuationTable ==
    (<<"+">> :> Plus) @@ (<<"-">> :> Minus) @@ (<<"*">> :> Star) @@
    (<<"/">> :> Slash) @@ (<<"=">> :> Assignment) @@
    (<<"=", "=">> :> Equals) @@ (<<";">> :> Semicolon) @@
    (<<"(">> :> LeftParen) @@ (<<")">> :> RightParen) @@
    (<<"{">> :> LeftBrace) @@ (<<"}">> :> RightBrace)

\* Variant of the keyword table without the entry for "else".
KeywordTableWithoutElse ==
    (<<"t","r","u","e">> :> Boolean(TRUE)) @@
    (<<"f","a","l","s","e">> :> Boolean(FALSE)) @@
    (<<"l","e","t">> :> Let) @@ (<<"f","n">> :> Fn) @@
    (<<"i","f">> :> If)

KeywordTable ==
    (<<"t","r","u","e">> :> Boolean(TRUE)) @@
    (<<"f","a","l","s","e">> :> Boolean(FALSE)) @@
    (<<"l","e","t">> :> Let) @@ (<<"f","n">> :> Fn) @@
    (<<"i","f">> :> If) @@ (<<"e","l","s","e">> :> Else)

----------------------------------------------------------------------------
(* Slices and the three scanning loops *)

\* r[idx..] and r[..idx] of Rust, idx counted from 0
SliceFrom(r, idx) == SubSeq(r, idx + 1, Len(r))

SliceTo(r, idx) == SubSeq(r, 1, idx)

RECURSIVE WhitespaceRun(_, _)
WhitespaceRun(r, idx) ==
    IF idx < Len(r) /\ is_ascii_whitespace(r[idx + 1])
    THEN WhitespaceRun(r, idx + 1)
    ELSE idx

\* Variant of the identifier loop that accepts letters only.
RECURSIVE AlphabeticRun(_, _)
AlphabeticRun(r, idx) ==
    IF idx < Len(r) /\ is_ascii_alphabetic(r[idx + 1])
    THEN AlphabeticRun(r, idx + 1)
    ELSE idx

RECURSIVE AlphanumericRun(_, _)
AlphanumericRun(r, idx) ==
    IF idx < Len(r) /\ is_ascii_alphanumeric(r[idx + 1])
    THEN AlphanumericRun(r, idx + 1)
    ELSE idx

RECURSIVE NumericRun(_, _)
NumericRun(r, idx) ==
    IF idx < Len(r) /\ is_numeric(r[idx + 1])
    THEN NumericRun(r, idx + 1)
    ELSE idx

----------------------------------------------------------------------------
(* str::parse::<i32> on a run of numeric characters *)

I32Max == 2147483647

\* One digit of the accumulation: checked_mul(10) then checked_add(digit).
RECURSIVE ParseDigits(_, _, _)
ParseDigits(s, idx, acc) ==
    IF idx = Len(s) THEN [ok |-> TRUE, value |-> acc]
    ELSE IF s[idx + 1] \notin AsciiDigits THEN [ok |-> FALSE, value |-> 0]
    ELSE IF acc > I32Max \div 10 THEN [ok |-> FALSE, value |-> 0]
    ELSE IF acc * 10 > I32Max - DigitValue(s[idx + 1])
         THEN [ok |-> FALSE, value |-> 0]
    ELSE ParseDigits(s, idx + 1, acc * 10 + DigitValue(s[idx + 1]))

parse_i32(s) ==
    IF Len(s) = 0 THEN [ok |-> FALSE, value |-> 0]
    ELSE ParseDigits(s, 0, 0)

----------------------------------------------------------------------------
(* The methods of Tokenizer, as functions of the remaining input.  Each    *)
(* chop returns the token and the new remaining input.                     *)

\* Variant that trims the whitespace at both ends.
RECURSIVE TrailingWhitespaceRun(_, _)
TrailingWhitespaceRun(r, idx) ==
    IF idx < Len(r) /\ is_ascii_whitespace(r[Len(r) - idx])
    THEN TrailingWhitespaceRun(r, idx + 1)
    ELSE idx

skip_whitespace_trim(r) ==
    LET front == SliceFrom(r, WhitespaceRun(r, 0))
    IN  SliceTo(front, Len(front) - TrailingWhitespaceRun(front, 0))

\* Variant that drops at most one whitespace character.
skip_whitespace_once(r) ==
    IF Len(r) > 0 /\ is_ascii_whitespace(r[1]) THEN SliceFrom(r, 1) ELSE r

skip_whitespace(r) == SliceFrom(r, WhitespaceRun(r, 0))

\* Variant that looks the keyword up while scanning and stops at the first
\* prefix of the run that is a keyword.
RECURSIVE KeywordPrefixRun(_, _, _)
KeywordPrefixRun(r, idx, keywords) ==
    IF SliceTo(r, idx) \in DOMAIN keywords THEN idx
    ELSE IF idx < Len(r) /\ is_ascii_alphanumeric(r[idx + 1])
         THEN KeywordPrefixRun(r, idx + 1, keywords)
    ELSE idx

chop_identifer_or_keyword_token_eager(r, keywords) ==
    LET idx == KeywordPrefixRun(r, 0, keywords)
        data == SliceTo(r, idx)
    IN  [token |-> IF data \in DOMAIN keywords
                   THEN keywords[data]
                   ELSE Identifier(data),
         rest |-> SliceFrom(r, idx),
         panic |-> ~is_ascii_alphabetic(r[1])]

\* The assert, and the index r[0] in it, panic before anything is changed.
chop_identifer_or_keyword_token(r, keywords) ==
    LET idx == AlphanumericRun(r, 0)
        data == SliceTo(r, idx)
    IN  IF Len(r) = 0 \/ ~is_ascii_alphabetic(r[1])
        THEN [token |-> Identifier(<<>>), rest |-> r, panic |-> TRUE]
        ELSE [token |-> IF data \in DOMAIN keywords
                        THEN keywords[data]
                        ELSE Identifier(data),
              rest |-> SliceFrom(r, idx),
              panic |-> FALSE]

\* Variant that parses the run and leaves it in the remaining input.
chop_integer_token_keep(r) ==
    LET idx == NumericRun(r, 0)
        integer_data == parse_i32(SliceTo(r, idx))
    IN  IF integer_data.ok
        THEN [token |-> Integer(integer_data.value),
              rest |-> r, panic |-> FALSE]
        ELSE [token |-> Integer(0), rest |-> r, panic |-> TRUE]

chop_integer_token(r) ==
    LET idx == NumericRun(r, 0)
        integer_data == parse_i32(SliceTo(r, idx))
    IN  IF integer_data.ok
        THEN [token |-> Integer(integer_data.value),
              rest |-> SliceFrom(r, idx), panic |-> FALSE]
        ELSE [token |-> Integer(0), rest |-> r, panic |-> TRUE]

\* Variant that asks char::is_ascii_punctuation instead of the table.
is_current_character_ascii_punctuation(r, punctuation) ==
    r[1] \in {"!", "#", "$", "%", "&", "(", ")", "*", "+", ",", "-", ".",
              "/", ":", ";", "<", "=", ">", "?", "@", "[", "]", "^", "_",
              "{", "|", "}", "~"}

is_current_character_punctuation(r, punctuation) ==
    <<r[1]>> \in DOMAIN punctuation

\* Variant without the two-character lookahead.
chop_punctuation_token_single(r, punctuation) ==
    LET keyword_data == <<r[1]>>
    IN  IF keyword_data \in DOMAIN punctuation
        THEN [token |-> punctuation[keyword_data], rest |-> SliceFrom(r, 1),
              panic |-> FALSE]
        ELSE [token |-> Integer(0), rest |-> SliceFrom(r, 1),
              panic |-> TRUE]

\* The index r[0] panics on an empty input, the unwrap on a missing entry.
chop_punctuation_token(r, punctuation) ==
    LET two == Len(r) > 1 /\ r[1] = "=" /\ r[2] = "="
        keyword_data == IF two THEN <<"=", "=">> ELSE <<r[1]>>
        rest == IF two THEN SliceFrom(r, 2) ELSE SliceFrom(r, 1)
    IN  IF Len(r) = 0
        THEN [token |-> Integer(0), rest |-> r, panic |-> TRUE]
        ELSE IF keyword_data \in DOMAIN punctuation
        THEN [token |-> punctuation[keyword_data], rest |-> rest,
              panic |-> FALSE]
        ELSE [token |-> Integer(0), rest |-> rest, panic |-> TRUE]

----------------------------------------------------------------------------
(* Tokenizer::get_next_token as a function: the result is Some(token)      *)
(* ("some"), None ("none") or a panic raised by an unwrap or an assert     *)
(* ("panic"); rest is the remaining input the call leaves behind.          *)

get_next_token(r0, punctuation, keywords) ==
    LET r == skip_whitespace(r0)
        none == [ret |-> "none", token |-> Integer(0), rest |-> r]
        Result(chop) ==
            IF chop.panic
            THEN [ret |-> "panic", token |-> chop.token, rest |-> chop.rest]
            ELSE [ret |-> "some", token |-> chop.token, rest |-> chop.rest]
    IN  IF Len(r) = 0 THEN none
        ELSE IF is_ascii_alphabetic(r[1])
             THEN Result(chop_identifer_or_keyword_token(r, keywords))
        ELSE IF is_numeric(r[1])
             THEN Result(chop_integer_token(r))
        ELSE IF is_current_character_punctuation(r, punctuation)
             THEN Result(chop_punctuation_token(r, punctuation))
        ELSE none

\* The loop of tokenize: out is the vector built so far.
RECURSIVE TokenizeLoop(_, _, _, _)
TokenizeLoop(r, out, punctuation, keywords) ==
    LET next == get_next_token(r, punctuation, keywords)
    IN  IF next.ret = "some"
        THEN TokenizeLoop(next.rest, Append(out, next.token),
                          punctuation, keywords)
        ELSE [tokens |-> out, ret |-> next.ret, rest |-> next.rest]

\* tokenize(input): ret = "none" is a returned vector, "panic" an abort.
tokenize(text) == TokenizeLoop(text, <<>>, PunctuationTable, KeywordTable)

----------------------------------------------------------------------------
(* impl fmt::Debug for Token: "<kind-label, literal-text>"                 *)

\* Display of an i32: decimal digits, a leading '-' when negative.
RECURSIVE DecimalDigits(_)
DecimalDigits(n) ==
    \* n <= 0; the digits of -n, most significant first
    LET d == (10 - (n % 10)) % 10
        q == (n + d) \div 10
    IN  IF q = 0 THEN <<DigitChar(d)>>
        ELSE Append(DecimalDigits(q), DigitChar(d))

i32_to_string(n) ==
    IF n < 0 THEN <<"-">> \o DecimalDigits(n) ELSE DecimalDigits(0 - n)

bool_to_string(b) ==
    IF b THEN <<"t","r","u","e">> ELSE <<"f","a","l","s","e">>

KindLabel(t) ==
    CASE t.kind = "Identifier" -> <<"i","d","e","n","t","i","f","i","e","r">>
      [] t.kind = "Integer" -> <<"i","n","t","e","g","e","r">>
      [] t.kind = "Boolean" -> <<"b","o","o","l","e","a","n">>
      [] t.kind = "Let" -> <<"l","e","t">>
      [] t.kind = "Fn" -> <<"f","n">>
      [] t.kind = "If" -> <<"i","f">>
      [] t.kind = "Else" -> <<"e","l","s","e">>
      [] t.kind = "Plus" -> <<"+">>
      [] t.kind = "Minus" -> <<"-">>
      [] t.kind = "Star" -> <<"*">>
      [] t.kind = "Slash" -> <<"/">>
      [] t.kind = "Assignment" -> <<"=">>
      [] t.kind = "Equals" -> <<"=", "=">>
      [] t.kind = "Semicolon" -> <<";">>
      [] t.kind = "LeftParen" -> <<"(">>
      [] t.kind = "RightParen" -> <<")">>
      [] t.kind = "LeftBrace" -> <<"{">>
      [] t.kind = "RightBrace" -> <<"}">>

\* Variant that writes "=" as the literal text of Equals.
LiteralTextEqualsAsAssign(t) ==
    CASE t.kind = "Identifier" -> t.text
      [] t.kind = "Integer" -> i32_to_string(t.int)
      [] t.kind = "Boolean" -> bool_to_string(t.bool)
      [] t.kind = "Equals" -> <<"=">>
      [] OTHER -> KindLabel(t)

LiteralText(t) ==
    CASE t.kind = "Identifier" -> t.text
      [] t.kind = "Integer" -> i32_to_string(t.int)
      [] t.kind = "Boolean" -> bool_to_string(t.bool)
      [] t.kind = "Let" -> <<"l","e","t">>
      [] t.kind = "Fn" -> <<"f","n">>
      [] t.kind = "If" -> <<"i","f">>
      [] t.kind = "Else" -> <<"e","l","s","e">>
      [] t.kind = "Plus" -> <<"+">>
      [] t.kind = "Minus" -> <<"-">>
      [] t.kind = "Star" -> <<"*">>
      [] t.kind = "Slash" -> <<"/">>
      [] t.kind = "Assignment" -> <<"=">>
      [] t.kind = "Equals" -> <<"=", "=">>
      [] t.kind = "Semicolon" -> <<";">>
      [] t.kind = "LeftParen" -> <<"(">>
      [] t.kind = "RightParen" -> <<")">>
      [] t.kind = "LeftBrace" -> <<"{">>
      [] t.kind = "RightBrace" -> <<"}">>

Debug(t) ==
    <<"<">> \o KindLabel(t) \o <<",", " ">> \o LiteralText(t) \o <<">">>

----------------------------------------------------------------------------
(* Source texts given to tokenize *)

RECURSIVE Concat(_)
Concat(ps) == IF Len(ps) = 0 THEN <<>> ELSE Head(ps) \o Concat(Tail(ps))

Pieces ==
    { <<" ">>,
      <<"l","e","t">>, <<"x">>, <<"f","a","l","s","e">>,
      <<"1">>,
      <<"2","1","4","7","4","8","3","6","4","7">>,
      <<"2","1","4","7","4","8","3","6","4","8">>,
      <<"=">>, <<"+">>, <<"@">>, <<"U+0663">> }

PieceInputs ==
    { Concat(ps) : ps \in UNION { [1..n -> Pieces] : n \in 0..MaxPieces } }

\* "(abc + 123) * 34;"
ArithmeticExpression ==
    <<"(","a","b","c"," ","+"," ","1","2","3",")"," ","*"," ","3","4",";">>

\* "let x = 123 / 12;"
AssignmentStatement ==
    <<"l","e","t"," ","x"," ","="," ","1","2","3"," ","/"," ","1","2",";">>

\* "23 == 342 - 12"
EqualityStatement ==
    <<"2","3"," ","=","="," ","3","4","2"," ","-"," ","1","2">>

\* "if (true) { 34 } else { 43 }"
IfElseStatement ==
    <<"i","f"," ","(","t","r","u","e",")"," ","{"," ","3","4"," ","}"," ",
      "e","l","s","e"," ","{"," ","4","3"," ","}">>

\* a line as the read loop passes it on, with its newline: "fn(a1b2) \r\n"
ReadLine == <<"f","n","(","a","1","b","2",")"," ","\r","\n">>

TestInputs ==
    { ArithmeticExpression, AssignmentStatement, EqualityStatement,
      IfElseStatement, ReadLine,
      <<"1","2","3","a","b","c">>,
      <<"a","1","b","2">>,
      <<"i","f","1">>,
      <<"0","0","0","0","0","0","0","0","0","0","0","0","1">>,
      <<"9","9","9","9","9","9","9","9","9","9","9","9","9","9","9">> }

Inputs == PieceInputs \cup TestInputs

----------------------------------------------------------------------------
(* The state machine: tokenize(input) run one tokenizer step at a time.    *)
(* pc = "skip": get_next_token is entered; "dispatch": skip_whitespace has *)
(* returned; "done": tokenize has returned tokens; "panic": the thread     *)
(* has panicked.  returned is what the latest call of get_next_token       *)
(* returned: "some" for Some(token), "none" for None, "nothing" before the *)
(* first return.                                                           *)

Start(text, other) ==
    /\ input = text
    /\ variant = other
    /\ remaining_input = text
    /\ punctuation_to_token = PunctuationTable
    /\ keyword_to_token = KeywordTable
    /\ tokens = <<>>
    /\ pc = "skip"
    /\ returned = "nothing"

Init == \E text \in Inputs : Start(text, text)

SkipWhitespace ==
    /\ pc = "skip"
    /\ remaining_input' = skip_whitespace(remaining_input)
    /\ pc' = "dispatch"
    /\ UNCHANGED <<input, variant, punctuation_to_token, keyword_to_token,
                   tokens, returned>>

EndOfInput ==
    /\ pc = "dispatch"
    /\ Len(remaining_input) = 0
    /\ pc' = "done"
    /\ returned' = "none"
    /\ UNCHANGED <<input, variant, remaining_input, punctuation_to_token,
                   keyword_to_token, tokens>>

\* Variant of Emit that inserts the token at the front of the vector.
EmitAtFront(chop) ==
    /\ remaining_input' = chop.rest
    /\ IF chop.panic
       THEN pc' = "panic" /\ tokens' = tokens /\ returned' = returned
       ELSE /\ pc' = "skip"
            /\ tokens' = <<chop.token>> \o tokens
            /\ returned' = "some"
    /\ UNCHANGED <<input, variant, punctuation_to_token, keyword_to_token>>

\* The chop returns and tokenize pushes the token, or the chop panics.
Emit(chop) ==
    /\ remaining_input' = chop.rest
    /\ IF chop.panic
       THEN pc' = "panic" /\ tokens' = tokens /\ returned' = returned
       ELSE /\ pc' = "skip"
            /\ tokens' = Append(tokens, chop.token)
            /\ returned' = "some"
    /\ UNCHANGED <<input, variant, punctuation_to_token, keyword_to_token>>

\* Variant that takes the keyword's entry out of the table (remove for get).
ChopIdentifierOrKeywordRemoving ==
    /\ pc = "dispatch"
    /\ Len(remaining_input) # 0
    /\ is_ascii_alphabetic(remaining_input[1])
    /\ LET chop == chop_identifer_or_keyword_token(remaining_input,
                                                   keyword_to_token)
           data == SliceTo(remaining_input,
                           Len(remaining_input) - Len(chop.rest))
       IN  /\ remaining_input' = chop.rest
           /\ tokens' = Append(tokens, chop.token)
           /\ keyword_to_token' =
                 [k \in DOMAIN keyword_to_token \ {data}
                    |-> keyword_to_token[k]]
    /\ pc' = "skip"
    /\ returned' = "some"
    /\ UNCHANGED <<input, variant, punctuation_to_token>>

ChopIdentifierOrKeyword ==
    /\ pc = "dispatch"
    /\ Len(remaining_input) # 0
    /\ is_ascii_alphabetic(remaining_input[1])
    /\ Emit(chop_identifer_or_keyword_token(remaining_input,
                                            keyword_to_token))

ChopInteger ==
    /\ pc = "dispatch"
    /\ Len(remaining_input) # 0
    /\ ~is_ascii_alphabetic(remaining_input[1])
    /\ is_numeric(remaining_input[1])
    /\ Emit(chop_integer_token(remaining_input))

ChopPunctuation ==
    /\ pc = "dispatch"
    /\ Len(remaining_input) # 0
    /\ ~is_ascii_alphabetic(remaining_input[1])
    /\ ~is_numeric(remaining_input[1])
    /\ is_current_character_punctuation(remaining_input,
                                        punctuation_to_token)
    /\ Emit(chop_punctuation_token(remaining_input, punctuation_to_token))

\* Variant that skips the unrecognized character and goes on scanning.
UnrecognizedCharacterSkipped ==
    /\ pc = "dispatch"
    /\ Len(remaining_input) # 0
    /\ ~is_ascii_alphabetic(remaining_input[1])
    /\ ~is_numeric(remaining_input[1])
    /\ ~is_current_character_punctuation(remaining_input,
                                         punctuation_to_token)
    /\ IF Len(remaining_input) > 1
       THEN /\ remaining_input' = SliceFrom(remaining_input, 1)
            /\ pc' = "skip"
            /\ returned' = returned
       ELSE /\ remaining_input' = remaining_input
            /\ pc' = "done"
            /\ returned' = "none"
    /\ UNCHANGED <<input, variant, punctuation_to_token, keyword_to_token,
                   tokens>>

\* Variant that drops the unrecognized character before returning None.
UnrecognizedCharacterDropped ==
    /\ pc = "dispatch"
    /\ Len(remaining_input) # 0
    /\ ~is_ascii_alphabetic(remaining_input[1])
    /\ ~is_numeric(remaining_input[1])
    /\ ~is_current_character_punctuation(remaining_input,
                                         punctuation_to_token)
    /\ remaining_input' = SliceFrom(remaining_input, 1)
    /\ pc' = "done"
    /\ returned' = "none"
    /\ UNCHANGED <<input, variant, punctuation_to_token, keyword_to_token,
                   tokens>>

UnrecognizedCharacter ==
    /\ pc = "dispatch"
    /\ Len(remaining_input) # 0
    /\ ~is_ascii_alphabetic(remaining_input[1])
    /\ ~is_numeric(remaining_input[1])
    /\ ~is_current_character_punctuation(remaining_input,
                                         punctuation_to_token)
    /\ pc' = "done"
    /\ returned' = "none"
    /\ UNCHANGED <<input, variant, remaining_input, punctuation_to_token,
                   keyword_to_token, tokens>>

----------------------------------------------------------------------------
(* Pairs of source texts with the same lexemes and different whitespace:   *)
(* units are single lexemes (or a character no lexeme starts with), laid   *)
(* out with a run of whitespace, possibly empty, before, between and after *)
(* them.                                                                   *)

Units ==
    { <<"l","e","t">>, <<"x">>, <<"1">>,
      <<"2","1","4","7","4","8","3","6","4","8">>,
      <<"=">>, <<"=", "=">>, <<"+">>, <<"@">>, <<"U+0663">> }

GapsOfInput == { <<>>, <<" ">> }

GapsOfVariant == { <<>>, <<"\t", "\n">> }

\* Written side by side, p and q would read as one lexeme, or as other
\* lexemes than p and q.
Merges(p, q) ==
    \/ p[1] \in AsciiLetters /\ q[1] \in AsciiLetters \cup AsciiDigits
    \/ p[1] \in AsciiDigits \cup OtherNumerics
         /\ q[1] \in AsciiDigits \cup OtherNumerics
    \/ p = <<"=">> /\ q[1] = "="

\* gaps[1] units[1] gaps[2] ... units[n] gaps[n+1]
RECURSIVE LayOut(_, _)
LayOut(units, gaps) ==
    IF Len(units) = 0 THEN gaps[1]
    ELSE gaps[1] \o units[1] \o LayOut(Tail(units), Tail(gaps))

InitWs ==
    \E n \in 0..MaxLexemes :
        \E units \in [1..n -> Units] :
            \E g \in [1..(n + 1) -> GapsOfInput] :
                \E h \in [1..(n + 1) -> GapsOfVariant] :
                    /\ \A i \in 1..(n - 1) :
                          (g[i + 1] = <<>> \/ h[i + 1] = <<>>)
                              => ~Merges(units[i], units[i + 1])
                    /\ Start(LayOut(units, g), LayOut(units, h))

Next ==
    \/ SkipWhitespace
    \/ EndOfInput
    \/ ChopIdentifierOrKeyword
    \/ ChopInteger
    \/ ChopPunctuation
    \/ UnrecognizedCharacter

Spec == Init /\ [][Next]_vars

SpecWs == InitWs /\ [][Next]_vars

\* A caller other than tokenize, which calls get_next_token again after it
\* has returned None.
CallAgain ==
    /\ pc = "done"
    /\ pc' = "skip"
    /\ UNCHANGED <<input, variant, remaining_input, punctuation_to_token,
                   keyword_to_token, tokens, returned>>

NextCalls == Next \/ CallAgain

SpecCalls == Init /\ [][NextCalls]_vars

\* tokenize runs without suspension: a step that can be taken is taken.
FairInputs ==
    { Concat(ps) : ps \in UNION { [1..n -> Pieces] : n \in 0..MaxFairPieces } }
        \cup TestInputs

InitFair == \E text \in FairInputs : Start(text, text)

FairSpec == InitFair /\ [][Next]_vars /\ WF_vars(Next)

TypeOK ==
    /\ pc \in {"skip", "dispatch", "done", "panic"}
    /\ returned \in {"nothing", "some", "none"}
    /\ Len(tokens) <= Len(input)

----------------------------------------------------------------------------
(* Vocabulary of the properties *)

IsSuffix(s, t) ==
    /\ Len(s) <= Len(t)
    /\ s = SubSeq(t, Len(t) - Len(s) + 1, Len(t))

IsPrefix(s, t) ==
    /\ Len(s) <= Len(t)
    /\ s = SubSeq(t, 1, Len(s))

\* The characters a step removes from the front of the remaining input.
Consumed ==
    SubSeq(remaining_input, 1, Len(remaining_input) - Len(remaining_input'))

Emitted == Len(tokens') = Len(tokens) + 1

NewToken == tokens'[Len(tokens')]

AllIn(s, class) == \A i \in 1..Len(s) : s[i] \in class

\* Value of a decimal numeral, by its positional expansion.
RECURSIVE DecimalValue(_)
DecimalValue(s) ==
    IF Len(s) = 0 THEN 0
    ELSE 10 * DecimalValue(SubSeq(s, 1, Len(s) - 1)) + DigitValue(s[Len(s)])

\* The token a lexeme stands for, by the language's lexical grammar.
LexemeToken(lx) ==
    CASE lx = <<"t","r","u","e">> -> Boolean(TRUE)
      [] lx = <<"f","a","l","s","e">> -> Boolean(FALSE)
      [] lx = <<"l","e","t">> -> Let
      [] lx = <<"f","n">> -> Fn
      [] lx = <<"i","f">> -> If
      [] lx = <<"e","l","s","e">> -> Else
      [] lx = <<"+">> -> Plus
      [] lx = <<"-">> -> Minus
      [] lx = <<"*">> -> Star
      [] lx = <<"/">> -> Slash
      [] lx = <<"=">> -> Assignment
      [] lx = <<"=", "=">> -> Equals
      [] lx = <<";">> -> Semicolon
      [] lx = <<"(">> -> LeftParen
      [] lx = <<")">> -> RightParen
      [] lx = <<"{">> -> LeftBrace
      [] lx = <<"}">> -> RightBrace
      [] OTHER -> IF AllIn(lx, AsciiDigits)
                  THEN Integer(DecimalValue(lx))
                  ELSE Identifier(lx)

----------------------------------------------------------------------------
(* C1: tokenize returns the tokens in the left-to-right order of their     *)
(* lexemes.  Every step keeps the tokens already returned in place and     *)
(* adds at most one, at the end; a step that adds a token removes exactly  *)
(* that token's lexeme from the front of the remaining input, a step that  *)
(* adds none removes only whitespace; and "(abc + 123) * 34;" gives        *)
(* LeftParen, Identifier(abc), Plus, Integer(123), RightParen, Star,       *)
(* Integer(34), Semicolon.                                                 *)

C1_ArithmeticTokens ==
    << LeftParen, Identifier(<<"a","b","c">>), Plus, Integer(123),
       RightParen, Star, Integer(34), Semicolon >>

C1_Step ==
    /\ IsPrefix(tokens, tokens')
    /\ Len(tokens') <= Len(tokens) + 1
    /\ Emitted => /\ Len(Consumed) > 0
                  /\ NewToken = LexemeToken(Consumed)
    /\ ~Emitted => AllIn(Consumed, AsciiWhitespace)

C1_OrderPreserved ==
    /\ [][C1_Step]_vars
    /\ [](pc = "done" /\ input = ArithmeticExpression
            => tokens = C1_ArithmeticTokens)

C1_Witness ==
    /\ pc = "done"
    /\ input = ArithmeticExpression
    /\ Len(tokens) = 8

----------------------------------------------------------------------------
(* C2: when the remaining input after the whitespace skip starts with      *)
(* "==", the step emits exactly one Equals and removes exactly those two   *)
(* characters; a "=" not followed by "=" gives Assignment and removes one  *)
(* character; "===" gives Equals then Assignment.                          *)

StartsWith(r, s) == Len(r) >= Len(s) /\ SubSeq(r, 1, Len(s)) = s

TripleEquals == <<"=", "=", "=">>

C2_Step ==
    /\ (pc = "dispatch" /\ StartsWith(remaining_input, <<"=", "=">>))
         => /\ tokens' = Append(tokens, Equals)
            /\ remaining_input' = SubSeq(remaining_input, 3,
                                         Len(remaining_input))
    /\ (pc = "dispatch" /\ StartsWith(remaining_input, <<"=">>)
          /\ ~StartsWith(remaining_input, <<"=", "=">>))
         => /\ tokens' = Append(tokens, Assignment)
            /\ remaining_input' = Tail(remaining_input)

C2_LongestMatchEquals ==
    /\ [][C2_Step]_vars
    /\ [](pc = "done" /\ input = TripleEquals
            => tokens = <<Equals, Assignment>>)

C2_Witness ==
    /\ pc = "done"
    /\ input = TripleEquals
    /\ Len(tokens) = 2

----------------------------------------------------------------------------
(* C3: the keyword lookup is applied to the whole maximal run of ASCII     *)
(* alphanumeric characters that starts at an ASCII letter.  A step taken   *)
(* at an ASCII letter removes exactly the maximal run, emits one token,    *)
(* and that token is a keyword or boolean only if the whole run is its     *)
(* text; "letx" gives the single token Identifier("letx").                 *)

\* Length of the longest prefix of r all of whose characters are in class.
MaximalRun(r, class) ==
    CHOOSE n \in 0..Len(r) :
        /\ \A i \in 1..n : r[i] \in class
        /\ n < Len(r) => r[n + 1] \notin class

KeywordTexts ==
    { <<"t","r","u","e">>, <<"f","a","l","s","e">>, <<"l","e","t">>,
      <<"f","n">>, <<"i","f">>, <<"e","l","s","e">> }

AtLetter ==
    /\ pc = "dispatch"
    /\ Len(remaining_input) > 0
    /\ remaining_input[1] \in AsciiLetters

Letx == <<"l","e","t","x">>

C3_Step ==
    AtLetter =>
        LET n == MaximalRun(remaining_input, AsciiLetters \cup AsciiDigits)
            run == SubSeq(remaining_input, 1, n)
        IN  /\ Emitted
            /\ IsPrefix(tokens, tokens')
            /\ remaining_input' = SubSeq(remaining_input, n + 1,
                                         Len(remaining_input))
            /\ NewToken.kind # "Identifier"
                 => run \in KeywordTexts /\ NewToken = LexemeToken(run)
            /\ run \notin KeywordTexts => NewToken = Identifier(run)

C3_KeywordOnlyOnWholeRun ==
    /\ [][C3_Step]_vars
    /\ [](pc = "done" /\ input = Letx => tokens = <<Identifier(Letx)>>)

C3_Witness ==
    /\ pc = "done"
    /\ input = Letx
    /\ tokens = <<Identifier(Letx)>>

----------------------------------------------------------------------------
(* C4: a maximal alphanumeric run equal to "true" or "false" is emitted as *)
(* Boolean(true) / Boolean(false), one equal to "let", "fn", "if", "else"  *)
(* as Let, Fn, If, Else; no Identifier token carries one of these six      *)
(* texts; every other run starting with an ASCII letter is emitted as      *)
(* Identifier carrying exactly the consumed text.                          *)

WordToken(run) ==
    CASE run = <<"t","r","u","e">> -> Boolean(TRUE)
      [] run = <<"f","a","l","s","e">> -> Boolean(FALSE)
      [] run = <<"l","e","t">> -> Let
      [] run = <<"f","n">> -> Fn
      [] run = <<"i","f">> -> If
      [] run = <<"e","l","s","e">> -> Else
      [] OTHER -> Identifier(run)

C4_Step ==
    AtLetter =>
        LET n == MaximalRun(remaining_input, AsciiLetters \cup AsciiDigits)
            run == SubSeq(remaining_input, 1, n)
        IN  /\ tokens' = Append(tokens, WordToken(run))
            /\ Consumed = run

C4_NoKeywordIdentifier ==
    \A i \in 1..Len(tokens) :
        tokens[i].kind = "Identifier" => tokens[i].text \notin KeywordTexts

C4_KeywordPartition ==
    /\ [][C4_Step]_vars
    /\ []C4_NoKeywordIdentifier

C4_Witness ==
    /\ pc = "done"
    /\ tokens = <<Boolean(FALSE), Identifier(<<"x">>)>>

----------------------------------------------------------------------------
(* C5: whitespace invariance.  input and variant hold the same lexemes and *)
(* differ only in the runs of ASCII whitespace before, between and after   *)
(* them, no two lexemes being merged: tokenize(input), the run of the      *)
(* state machine, and tokenize(variant) return the same token sequence,    *)
(* and one panics exactly when the other does.                             *)

C5_WhitespaceInvariance ==
    /\ pc = "done" => /\ tokenize(variant).ret = "none"
                      /\ tokenize(variant).tokens = tokens
    /\ pc = "panic" => tokenize(variant).ret = "panic"

C5_Witness ==
    /\ pc = "done"
    /\ input = <<"l","e","t"," ","=","=">>
    /\ variant = <<"\t","\n","l","e","t","=","=","\t","\n">>
    /\ tokens = <<Let, Equals>>

----------------------------------------------------------------------------
(* C6: a maximal numeric run whose value does not fit a 32-bit signed      *)
(* integer is reported as a recoverable error; the tokenizer does not      *)
(* panic on it.                                                            *)

RECURSIVE StripZeros(_)
StripZeros(s) ==
    IF Len(s) > 1 /\ s[1] = "0" THEN StripZeros(Tail(s)) ELSE s

I32MaxDigits == <<"2","1","4","7","4","8","3","6","4","7">>

\* The decimal numeral s, of ASCII digits, denotes a value above 2^31 - 1.
ExceedsI32(s) ==
    LET z == StripZeros(s)
    IN  \/ Len(z) > 10
        \/ /\ Len(z) = 10
           /\ \E i \in 1..10 :
                 /\ DigitValue(z[i]) > DigitValue(I32MaxDigits[i])
                 /\ \A j \in 1..(i - 1) : z[j] = I32MaxDigits[j]

\* The maximal numeric run at the front of the remaining input.
NumericRunAtFront ==
    SubSeq(remaining_input, 1,
           MaximalRun(remaining_input, AsciiDigits \cup OtherNumerics))

AtOverflowingNumeral ==
    /\ Len(NumericRunAtFront) > 0
    /\ AllIn(NumericRunAtFront, AsciiDigits)
    /\ ExceedsI32(NumericRunAtFront)

C6_OverflowIsRecoverable == AtOverflowingNumeral => pc # "panic"

----------------------------------------------------------------------------
(* C7: an unrecognized lead character is never reported as a normal end of *)
(* stream: tokenize does not return a token sequence while unconsumed      *)
(* input remains.                                                          *)

C7_NoSilentTruncation == pc = "done" => Len(remaining_input) = 0

----------------------------------------------------------------------------
(* C8: tokenize terminates on every input.  Every step that returns a      *)
(* token removes at least one character from the remaining input, the      *)
(* number of tokens never exceeds the length of the input, and the run     *)
(* eventually returns or stops on a fatal condition.                       *)

C8_Terminates ==
    /\ [][Emitted => Len(remaining_input') < Len(remaining_input)]_vars
    /\ [](Len(tokens) <= Len(input))
    /\ <>(pc \in {"done", "panic"})

C8_Witness ==
    /\ pc = "done"
    /\ input = <<"=", "+">>
    /\ tokens = <<Assignment, Plus>>

----------------------------------------------------------------------------
(* C9: rendering agrees with scanning.  For every keyword and punctuation  *)
(* token the kind label and the literal text are the same string, and that *)
(* string is the table key mapped to the token; and for every token the    *)
(* tokenizer has emitted, tokenizing its literal text yields exactly that  *)
(* one token.                                                              *)

KeywordTokens == {Let, Fn, If, Else}

PunctuationTokens ==
    {Plus, Minus, Star, Slash, Assignment, Equals, Semicolon, LeftParen,
     RightParen, LeftBrace, RightBrace}

KeyOf(t) ==
    \/ /\ KindLabel(t) \in DOMAIN punctuation_to_token
       /\ punctuation_to_token[KindLabel(t)] = t
    \/ /\ KindLabel(t) \in DOMAIN keyword_to_token
       /\ keyword_to_token[KindLabel(t)] = t

Rescans(t) ==
    LET again == tokenize(LiteralText(t))
    IN  again.ret = "none" /\ again.rest = <<>> /\ again.tokens = <<t>>

C9_RenderAgreesWithScan ==
    /\ \A t \in KeywordTokens \cup PunctuationTokens :
          KindLabel(t) = LiteralText(t) /\ KeyOf(t) /\ Rescans(t)
    /\ \A i \in 1..Len(tokens) : Rescans(tokens[i])

C9_Witness ==
    /\ pc = "done"
    /\ input = <<"0","0","0","0","0","0","0","0","0","0","0","0","1">>
    /\ tokens = <<Integer(1)>>
    /\ LiteralText(tokens[1]) = <<"1">>

----------------------------------------------------------------------------
(* C10: after every step the remaining input is a suffix of the remaining  *)
(* input before the step, and so of the source text.                       *)

C10_RemainingIsSuffix ==
    /\ [][IsSuffix(remaining_input', remaining_input)]_vars
    /\ [](IsSuffix(remaining_input, input))

C10_Witness ==
    /\ pc = "dispatch"
    /\ input = ReadLine
    /\ remaining_input = <<"(","a","1","b","2",")"," ","\r","\n">>

----------------------------------------------------------------------------
(* C11: end-of-stream is terminal.  Once get_next_token has returned None, *)
(* every later call returns None again: no step changes the remaining      *)
(* input or the tokens, none panics, and no return value other than None   *)
(* follows.                                                                *)

C11_Step ==
    returned = "none" =>
        /\ returned' = "none"
        /\ remaining_input' = remaining_input
        /\ tokens' = tokens
        /\ pc' # "panic"

C11_EndOfStreamIsTerminal == [][C11_Step]_vars

\* A second call after None, stopped at the same unrecognized character.
C11_Witness ==
    /\ returned = "none"
    /\ pc = "dispatch"
    /\ input = <<"x", "@", "x">>
    /\ remaining_input = <<"@", "x">>
    /\ tokens = <<Identifier(<<"x">>)>>

----------------------------------------------------------------------------
(* C12: reference behaviour on an unrecognized lead character.  The step   *)
(* returns None and leaves that character in the remaining input; tokenize *)
(* then returns, with no failure, exactly the tokens of the input prefix   *)
(* before the first unrecognized character, and everything from that       *)
(* character on is discarded.                                              *)

PunctuationCharacters ==
    {"+", "-", "*", "/", "=", ";", "(", ")", "{", "}"}

Recognized(c) ==
    c \in AsciiLetters \cup AsciiDigits \cup OtherNumerics
          \cup PunctuationCharacters \cup AsciiWhitespace

\* Index of the first unrecognized character of s, Len(s) + 1 if none.
FirstUnrecognized(s) ==
    CHOOSE n \in 1..(Len(s) + 1) :
        /\ \A i \in 1..(n - 1) : Recognized(s[i])
        /\ n <= Len(s) => ~Recognized(s[n])

AtUnrecognized ==
    /\ pc = "dispatch"
    /\ Len(remaining_input) > 0
    /\ ~Recognized(remaining_input[1])

C12_Step ==
    AtUnrecognized =>
        /\ pc' = "done"
        /\ returned' = "none"
        /\ remaining_input' = remaining_input
        /\ tokens' = tokens

C12_Truncated ==
    (pc = "done" /\ FirstUnrecognized(input) <= Len(input)) =>
        LET n == FirstUnrecognized(input)
            before == tokenize(SubSeq(input, 1, n - 1))
        IN  /\ remaining_input = SubSeq(input, n, Len(input))
            /\ before.ret = "none"
            /\ tokens = before.tokens

C12_SilentTruncation ==
    /\ [][C12_Step]_vars
    /\ []C12_Truncated

C12_Witness ==
    /\ pc = "done"
    /\ input = <<"x", "@", "x">>
    /\ remaining_input = <<"@", "x">>
    /\ tokens = <<Identifier(<<"x">>)>>
    /\ returned = "none"

----------------------------------------------------------------------------
(* C13: the integer scan is entered only for an ASCII digit and consumes   *)
(* only ASCII digits, so its only failure is overflow: whenever the scan   *)
(* fails, the numeric run it scanned is a numeral of ASCII digits whose    *)
(* value exceeds 2^31 - 1.                                                 *)

C13_OnlyOverflowFails ==
    pc = "panic" =>
        /\ AllIn(NumericRunAtFront, AsciiDigits)
        /\ ExceedsI32(NumericRunAtFront)

----------------------------------------------------------------------------
(* C14: for every maximal run of decimal digits '0'..'9' of value v, the   *)
(* integer scan emits Integer(v) and consumes the whole run when           *)
(* v <= 2147483647, whatever the length and the leading zeros, and rejects *)
(* the run exactly when v >= 2147483648; no emitted Integer is negative.   *)

AtDigit ==
    /\ pc = "dispatch"
    /\ Len(remaining_input) > 0
    /\ remaining_input[1] \in AsciiDigits

C14_Step ==
    AtDigit =>
        LET n == MaximalRun(remaining_input, AsciiDigits)
            run == SubSeq(remaining_input, 1, n)
        IN  IF ExceedsI32(run)
            THEN pc' = "panic" /\ tokens' = tokens
            ELSE /\ tokens' = Append(tokens, Integer(DecimalValue(run)))
                 /\ Consumed = run

C14_NoNegativeInteger ==
    \A i \in 1..Len(tokens) :
        tokens[i].kind = "Integer" => tokens[i].int >= 0

C14_IntegerRange ==
    /\ [][C14_Step]_vars
    /\ []C14_NoNegativeInteger

----------------------------------------------------------------------------
(* C15: maximal munch at the letter/digit boundary.  A scan that starts at *)
(* an ASCII letter takes the longest run of ASCII letters and digits as    *)
(* one token; a scan that starts at a numeric character takes, when it     *)
(* yields a token, the longest run of numeric characters and stops at the  *)
(* first other character, letters included; neither takes one character    *)
(* more.  "a1b2" is Identifier("a1b2"), "if1" is Identifier("if1"),        *)
(* "123abc" is Integer(123), Identifier("abc").                            *)

AtNumeric ==
    /\ pc = "dispatch"
    /\ Len(remaining_input) > 0
    /\ remaining_input[1] \in AsciiDigits \cup OtherNumerics

C15_Step ==
    /\ AtLetter =>
          /\ Emitted
          /\ Len(Consumed) =
                MaximalRun(remaining_input, AsciiLetters \cup AsciiDigits)
          /\ NewToken.kind \in {"Identifier", "Boolean", "Let", "Fn", "If",
                                "Else"}
    /\ AtNumeric =>
          IF Emitted
          THEN /\ Len(Consumed) =
                     MaximalRun(remaining_input,
                                AsciiDigits \cup OtherNumerics)
               /\ NewToken.kind = "Integer"
          ELSE Len(Consumed) = 0 /\ pc' = "panic"

C15_Examples ==
    pc = "done" =>
        /\ input = <<"a","1","b","2">>
             => tokens = <<Identifier(<<"a","1","b","2">>)>>
        /\ input = <<"i","f","1">>
             => tokens = <<Identifier(<<"i","f","1">>)>>
        /\ input = <<"1","2","3","a","b","c">>
             => tokens = <<Integer(123), Identifier(<<"a","b","c">>)>>

----------------------------------------------------------------------------
(* C16: a get_next_token call changes only the remaining input.  In every  *)
(* reachable state the punctuation table and the keyword table hold the    *)
(* entries they were constructed with, no step changes them, and no step   *)
(* changes a token that was already returned.                              *)

C16_TablesAsConstructed ==
    /\ punctuation_to_token = PunctuationTable
    /\ keyword_to_token = KeywordTable

C16_Step ==
    /\ punctuation_to_token' = punctuation_to_token
    /\ keyword_to_token' = keyword_to_token
    /\ \A i \in 1..Len(tokens) : i <= Len(tokens') /\ tokens'[i] = tokens[i]

C16_OnlyRemainingInputChanges ==
    /\ [][C16_Step]_vars
    /\ []C16_TablesAsConstructed

C16_Witness ==
    /\ pc = "done"
    /\ input = IfElseStatement
    /\ Len(tokens) = 11
    /\ Len(remaining_input) = 0
    /\ C16_TablesAsConstructed

----------------------------------------------------------------------------
(* C17: the scanner's internal assumptions hold.  On an empty remaining    *)
(* input the call returns None at once, so remaining_input[0] is read only *)
(* when the input is non-empty; a scan entered at an ASCII letter (the     *)
(* assert) or at a punctuation character (the table lookup and its unwrap) *)
(* never panics: a panic arises only from the integer scan.                *)

AtPunctuation ==
    /\ pc = "dispatch"
    /\ Len(remaining_input) > 0
    /\ remaining_input[1] \in PunctuationCharacters

C17_Step ==
    /\ (pc = "dispatch" /\ Len(remaining_input) = 0)
         => pc' = "done" /\ returned' = "none" /\ tokens' = tokens
    /\ AtLetter => Emitted /\ pc' = "skip"
    /\ AtPunctuation
         => Emitted /\ pc' = "skip" /\ NewToken \in PunctuationTokens
    /\ pc' = "panic" => AtNumeric

C17_InternalAssumptionsHold == [][C17_Step]_vars

\* A further call after the eleven tokens of the if-else statement.
C17_Witness ==
    /\ pc = "dispatch"
    /\ returned = "none"
    /\ input = IfElseStatement
    /\ Len(tokens) = 11
    /\ Len(remaining_input) = 0

====
